---------------------------- MODULE Spec2Model ----------------------------
(***************************************************************************)
(* Model of the review-synthesis pipeline of src/src/lib/ai.ts:            *)
(* buildRichPrompt, parseV2Response, generateV2Review,                    *)
(* generateV2PRDescription, generateAISummary and generatePRDescription.   *)
(*                                                                         *)
(* JavaScript values are tagged records.  A string that is searched by the *)
(* regular expression and decoded by JSON.parse (the model's answer) is a  *)
(* "text": a sequence of JSON tokens and prose words.  Braces occur only   *)
(* as the tokens "{" and "}", so the regular expression's first-'{' to     *)
(* last-'}' span always falls on token boundaries.  Numbers are held in    *)
(* tenths (0.5 is 5, 1 is 10).                                             *)
(***************************************************************************)
EXTENDS Integers, Sequences, FiniteSets, TLC

VARIABLES
    aiResponse,   \* the model's text: parseV2Response's argument
    parsePc,      \* parseV2Response called alone: "call" before, "done" after
    parseResult,  \* the value parseV2Response returned
    op,           \* the public operation invoked, "idle" before any
    pc,           \* the invocation's position in its code
    config,       \* MiniMaxConfig: apiKey, groupId
    reviewInput,  \* prContext, docType, semanticDiff, codeFiles of the call
    request,      \* the request handed to fetch, NoRequest before
    response,     \* what fetch resolved with, NoResponse before
    fetchCalls,   \* calls of fetch made by the invocation
    parseCalls,   \* calls of parseV2Response made by the invocation
    summaryCalls, \* calls of generateAISummary made by the invocation
    attempt,      \* the synthesis attempt's state
    ret,          \* how the invocation ended: Pending, Returned(x) or Thrown
    findings,     \* ReviewFinding[] handed to buildRichPrompt
    prompt        \* buildRichPrompt's result, NoPrompt before

vars ==
    <<aiResponse, parsePc, parseResult, op, pc, config, reviewInput, request,
      response, fetchCalls, parseCalls, summaryCalls, attempt, ret, findings,
      prompt>>

parseVars == <<aiResponse, parsePc, parseResult>>
callVars ==
    <<op, pc, config, request, response, fetchCalls, parseCalls, summaryCalls,
      attempt, ret>>
promptVars == <<reviewInput, findings, prompt>>

---------------------------------------------------------------------------
(* JavaScript values *)

Undefined == [t |-> "undefined"]
Null == [t |-> "null"]
Bool(b) == [t |-> "bool", v |-> b]
Num(n) == [t |-> "num", v |-> n]
Str(s) == [t |-> "str", v |-> s]
Arr(a) == [t |-> "arr", v |-> a]
Obj(f) == [t |-> "obj", v |-> f]
Text(toks) == [t |-> "text", v |-> toks]

NoFields == [k \in {} |-> Null]

\* ToBoolean: undefined, null, false, 0 and the empty string are falsy.
Truthy(x) ==
    CASE x.t = "undefined" -> FALSE
      [] x.t = "null" -> FALSE
      [] x.t = "bool" -> x.v
      [] x.t = "num" -> x.v # 0
      [] x.t = "str" -> x.v # ""
      [] x.t = "text" -> x.v # <<>>
      [] OTHER -> TRUE

\* a || b
OrElse(a, b) == IF Truthy(a) THEN a ELSE b

\* Reading a property of undefined or null raises a TypeError.
CanRead(x) == x.t \notin {"undefined", "null"}

\* x.k (x?.k where the caller tests CanRead first): an own property of an
\* object, undefined for a missing key and for a primitive or an array
\* (none of the keys read here is "length").
Get(x, k) ==
    IF x.t = "obj" /\ k \in DOMAIN x.v THEN x.v[k] ELSE Undefined

\* x.length
LengthOf(x) ==
    CASE x.t = "arr" -> Num(10 * Len(x.v))
      [] x.t = "str" -> Num(10 * Len(x.v))
      [] x.t = "text" -> Num(10 * Len(x.v))
      [] OTHER -> Get(x, "length")

---------------------------------------------------------------------------
(* JSON.parse over tokens *)

\* The contents of the string literals a text may hold.
StrContents ==
    {"prIntent", "changeOverview", "keyRisks", "checklist", "prBodySuggestion",
     "verdict", "confidence", "summary", "sections", "heading", "content",
     "severity", "wrap", "",
     "Improve onboarding", "Docs updated", "approved", "Looks good", "high",
     "Summary", "Adds install steps", "none", "text"}

Quote(s) == "\"" \o s \o "\""

StrLits == {Quote(s) : s \in StrContents}

Unquote(tok) == CHOOSE s \in StrContents : Quote(s) = tok

\* Number literals, with their values in tenths.
NumLits == {"0", "0.5", "0.8", "1"}

NumVal(tok) ==
    CASE tok = "0" -> 0
      [] tok = "0.5" -> 5
      [] tok = "0.8" -> 8
      [] tok = "1" -> 10

Fail == [ok |-> FALSE]
Ok(val, next) == [ok |-> TRUE, val |-> val, next |-> next]

Put(f, k, x) == [j \in (DOMAIN f) \cup {k} |-> IF j = k THEN x ELSE f[j]]

RECURSIVE ParseValue(_, _), ParseMembers(_, _, _), ParseElements(_, _, _)

\* value := string | number | true | false | null | object | array
ParseValue(s, i) ==
    IF i > Len(s) THEN Fail
    ELSE LET tok == s[i] IN
         CASE tok = "{" ->
                IF i + 1 <= Len(s) /\ s[i + 1] = "}"
                THEN Ok(Obj(NoFields), i + 2)
                ELSE ParseMembers(s, i + 1, NoFields)
           [] tok = "[" ->
                IF i + 1 <= Len(s) /\ s[i + 1] = "]"
                THEN Ok(Arr(<<>>), i + 2)
                ELSE ParseElements(s, i + 1, <<>>)
           [] tok \in StrLits -> Ok(Str(Unquote(tok)), i + 1)
           [] tok \in NumLits -> Ok(Num(NumVal(tok)), i + 1)
           [] tok = "true" -> Ok(Bool(TRUE), i + 1)
           [] tok = "false" -> Ok(Bool(FALSE), i + 1)
           [] tok = "null" -> Ok(Null, i + 1)
           [] OTHER -> Fail

\* member ("," member)* "}" with member := string ":" value; a repeated key
\* keeps its last value.
ParseMembers(s, i, acc) ==
    IF ~(i + 1 <= Len(s) /\ s[i] \in StrLits /\ s[i + 1] = ":") THEN Fail
    ELSE LET r == ParseValue(s, i + 2) IN
         IF ~r.ok THEN Fail
         ELSE LET acc2 == Put(acc, Unquote(s[i]), r.val) IN
              IF r.next > Len(s) THEN Fail
              ELSE IF s[r.next] = "," THEN ParseMembers(s, r.next + 1, acc2)
              ELSE IF s[r.next] = "}" THEN Ok(Obj(acc2), r.next + 1)
              ELSE Fail

\* value ("," value)* "]"
ParseElements(s, i, acc) ==
    LET r == ParseValue(s, i) IN
    IF ~r.ok THEN Fail
    ELSE LET acc2 == Append(acc, r.val) IN
         IF r.next > Len(s) THEN Fail
         ELSE IF s[r.next] = "," THEN ParseElements(s, r.next + 1, acc2)
         ELSE IF s[r.next] = "]" THEN Ok(Arr(acc2), r.next + 1)
         ELSE Fail

\* JSON.parse(s): one value and nothing after it, or a SyntaxError (ok FALSE).
JSONparse(s) ==
    LET r == ParseValue(s, 1) IN
    IF r.ok /\ r.next = Len(s) + 1 THEN [ok |-> TRUE, val |-> r.val] ELSE Fail

---------------------------------------------------------------------------
(* parseV2Response *)

Opens(s) == {i \in 1..Len(s) : s[i] = "{"}
Closes(s) == {i \in 1..Len(s) : s[i] = "}"}
MinOf(S) == CHOOSE i \in S : \A j \in S : i <= j
MaxOf(S) == CHOOSE i \in S : \A j \in S : j <= i

\* aiResponse.match(/\{[\s\S]*\}/): the leftmost '{' that has a '}' after it,
\* greedily up to the last '}'.
HasMatch(s) == Opens(s) # {} /\ \E j \in Closes(s) : j > MinOf(Opens(s))

\* The span of a lazy pattern, /\{[\s\S]*?\}/: up to the first '}'.
JsonMatch_Lazy(s) ==
    SubSeq(s, MinOf(Opens(s)), MinOf({j \in Closes(s) : j > MinOf(Opens(s))}))

JsonMatch(s) == SubSeq(s, MinOf(Opens(s)), MaxOf(Closes(s)))

DefaultConfidence == 5

\* The result built with keyRisks taken as it comes, no default.
V2Output_NoDefault(parsed) ==
    Obj([prIntent |-> Get(parsed, "prIntent"),
         changeOverview |-> Get(parsed, "changeOverview"),
         keyRisks |-> Get(parsed, "keyRisks"),
         checklist |-> OrElse(Get(parsed, "checklist"), Arr(<<>>)),
         prBodySuggestion |->
             OrElse(Get(parsed, "prBodySuggestion"),
                    Obj([sections |-> Arr(<<>>)])),
         verdict |->
             Obj([verdict |->
                      OrElse(Get(Get(parsed, "verdict"), "verdict"),
                             Str("commented")),
                  confidence |->
                      OrElse(Get(Get(parsed, "verdict"), "confidence"),
                             Num(DefaultConfidence)),
                  summary |->
                      OrElse(Get(Get(parsed, "verdict"), "summary"), Str(""))])])

\* The object parseV2Response builds from a parsed source that passed the gate.
V2Output(parsed) ==
    Obj([prIntent |-> Get(parsed, "prIntent"),
         changeOverview |-> Get(parsed, "changeOverview"),
         keyRisks |-> OrElse(Get(parsed, "keyRisks"), Arr(<<>>)),
         checklist |-> OrElse(Get(parsed, "checklist"), Arr(<<>>)),
         prBodySuggestion |->
             OrElse(Get(parsed, "prBodySuggestion"),
                    Obj([sections |-> Arr(<<>>)])),
         verdict |->
             Obj([verdict |->
                      OrElse(Get(Get(parsed, "verdict"), "verdict"),
                             Str("commented")),
                  confidence |->
                      OrElse(Get(Get(parsed, "verdict"), "confidence"),
                             Num(DefaultConfidence)),
                  summary |->
                      OrElse(Get(Get(parsed, "verdict"), "summary"), Str(""))])])

\* The validation with prIntent forgotten.
MissingRequired_NoIntent(parsed) ==
    \/ ~Truthy(Get(parsed, "changeOverview"))
    \/ ~Truthy(Get(parsed, "verdict"))

\* The validation of the required fields.
MissingRequired(parsed) ==
    \/ ~Truthy(Get(parsed, "prIntent"))
    \/ ~Truthy(Get(parsed, "changeOverview"))
    \/ ~Truthy(Get(parsed, "verdict"))

\* parseV2Response(ai): every exception raised in its body (match is not a
\* function of a non-string, JSON.parse's SyntaxError, a property read of
\* null) is caught and turned into null.
parseV2Response(ai) ==
    IF ai.t # "text" THEN Null
    ELSE IF ~HasMatch(ai.v) THEN Null
    ELSE LET d == JSONparse(JsonMatch(ai.v)) IN
         IF ~d.ok THEN Null
         ELSE IF ~CanRead(d.val) THEN Null
         ELSE IF MissingRequired(d.val) THEN Null
         ELSE IF ~CanRead(Get(d.val, "verdict")) THEN Null
         ELSE V2Output(d.val)

---------------------------------------------------------------------------
(* The model texts parseV2Response is applied to *)

\* The order in which an object's keys are written out.
KeyOrder ==
    <<"wrap", "prIntent", "changeOverview", "keyRisks", "checklist",
      "prBodySuggestion", "verdict", "confidence", "summary", "sections",
      "heading", "content", "severity">>

NumLit(n) == CHOOSE tok \in NumLits : NumVal(tok) = n

RECURSIVE Render(_), RenderMembers(_, _, _), RenderElements(_, _)

\* The JSON text of a value (what JSON.stringify would write, as tokens).
Render(x) ==
    CASE x.t = "obj" -> <<"{">> \o RenderMembers(x.v, 1, TRUE) \o <<"}">>
      [] x.t = "arr" -> <<"[">> \o RenderElements(x.v, 1) \o <<"]">>
      [] x.t = "str" -> <<Quote(x.v)>>
      [] x.t = "num" -> <<NumLit(x.v)>>
      [] x.t = "bool" -> <<IF x.v THEN "true" ELSE "false">>
      [] OTHER -> <<"null">>

RenderMembers(f, i, first) ==
    IF i > Len(KeyOrder) THEN <<>>
    ELSE IF KeyOrder[i] \notin DOMAIN f THEN RenderMembers(f, i + 1, first)
    ELSE (IF first THEN <<>> ELSE <<",">>)
         \o <<Quote(KeyOrder[i]), ":">> \o Render(f[KeyOrder[i]])
         \o RenderMembers(f, i + 1, FALSE)

RenderElements(a, i) ==
    IF i > Len(a) THEN <<>>
    ELSE (IF i = 1 THEN <<>> ELSE <<",">>) \o Render(a[i])
         \o RenderElements(a, i + 1)

\* An object of the given fields; a field given as undefined is left out.
MkObj(f) == Obj([k \in {j \in DOMAIN f : f[j] # Undefined} |-> f[k]])

\* The answer the prompt asks for, as in the end-to-end example.
BaseFields ==
    [prIntent |-> Str("Improve onboarding"),
     changeOverview |-> Str("Docs updated"),
     keyRisks |-> Arr(<<MkObj([severity |-> Str("high")])>>),
     checklist |-> Arr(<<MkObj([heading |-> Str("text")])>>),
     prBodySuggestion |->
         MkObj([sections |->
                    Arr(<<MkObj([heading |-> Str("Summary"),
                                 content |-> Str("Adds install steps")])>>)]),
     verdict |->
         MkObj([verdict |-> Str("approved"),
                confidence |-> Num(8),
                summary |-> Str("Looks good")])]

ConfidenceAlts ==
    {Undefined, Null, Num(0), Num(5), Num(10), Str("high"), Bool(TRUE)}

\* What a model may send in place of each field: nothing (undefined), a falsy
\* value, a value of the wrong shape.
Alternatives(k) ==
    CASE k = "prIntent" -> {Undefined, Null, Str("")}
      [] k = "changeOverview" -> {Undefined, Str(""), Num(0)}
      [] k = "keyRisks" ->
            {Undefined, Null, Arr(<<>>), Arr(<<Str("none")>>), Str("none")}
      [] k = "checklist" -> {Undefined, Bool(FALSE), Arr(<<Null>>)}
      [] k = "prBodySuggestion" ->
            {Undefined, Null, Obj(NoFields), Str("text"),
             MkObj([sections |-> Arr(<<>>)]),
             MkObj([sections |-> Arr(<<Null>>)]),
             MkObj([sections |-> Str("text")])}
      [] k = "verdict" ->
            {Undefined, Null, Obj(NoFields), Str("approved"), Bool(FALSE)}
            \cup {MkObj([verdict |-> Str("approved"), confidence |-> c,
                         summary |-> Str("Looks good")]) : c \in ConfidenceAlts}
            \cup {MkObj([confidence |-> Num(10)])}

MaxOverrides == 2

RECURSIVE FieldChoices(_)

\* The base answer with at most n of its fields replaced by an alternative.
FieldChoices(n) ==
    IF n = 0 THEN {BaseFields}
    ELSE LET prev == FieldChoices(n - 1) IN
         prev \cup UNION {{[f EXCEPT ![k] = a] : f \in prev, a \in Alternatives(k)} :
                             k \in DOMAIN BaseFields}

SourceObjects == {MkObj(f) : f \in FieldChoices(MaxOverrides)}

\* Prose before and after the JSON, as <<before, after>>: none, the spec's
\* example, braces that stay outside the span, a stray brace on either side,
\* and an enclosing object.
Frames ==
    {<< <<>>, <<>> >>,
     << <<"Here is the result:">>, <<"thanks">> >>,
     << <<"}">>, <<"{">> >>,
     << <<"{">>, <<>> >>,
     << <<>>, <<"}">> >>,
     << <<"{", Quote("wrap"), ":">>, <<"}">> >>}

\* Texts that hold no JSON object.
PlainTexts == {<<>>, <<"thanks">>, <<"}", "{">>, <<"{">>, <<"}">>,
               <<"{", "thanks", "}">>}

ModelTexts ==
    {fr[1] \o Render(o) \o fr[2] : fr \in Frames, o \in SourceObjects}
    \cup PlainTexts

---------------------------------------------------------------------------
(* buildRichPrompt *)

Min(a, b) == IF a <= b THEN a ELSE b

\* s.slice(0, n)
Slice(s, n) == SubSeq(s, 1, Min(n, Len(s)))

SectionCap == 10
FindingCap == 10

ToUpperCase(s) ==
    CASE s = "error" -> "ERROR"
      [] s = "warning" -> "WARNING"
      [] s = "info" -> "INFO"
      [] OTHER -> s

\* An optional string field that is present and not empty (a truthy string).
HasText(r, k) == k \in DOMAIN r /\ r[k] # ""

\* One line of the files summary: `${filename}: +${additions}/-${deletions}`.
FormatFile(f) ==
    <<f.filename, ": +", ToString(f.additions), "/-", ToString(f.deletions)>>

\* One line of the section changes, by variant.
FormatSection(sc) ==
    CASE sc.type = "added" -> <<"+ ", sc.newHeading, " (added)">>
      [] sc.type = "removed" -> <<"- ", sc.oldHeading, " (removed)">>
      [] sc.type = "modified" -> <<"~ ", sc.newHeading, " (modified)">>
      [] OTHER -> <<"(raquo) ", sc.newHeading, " (moved)">>

\* One line of the findings: `[${type.toUpperCase()}] ${file || 'general'}: ${message}`.
FormatFinding(f) ==
    <<"[", ToUpperCase(f.type), "] ",
      IF HasText(f, "file") THEN f.file ELSE "general", ": ", f.message>>

IsHighSignal(f) == f.type = "error" \/ f.type = "warning"

\* A finding list cut before it is filtered: info findings use up slots.
HighSignalFindings_CapFirst(fs) ==
    LET kept == SelectSeq(Slice(fs, FindingCap), IsHighSignal)
    IN [i \in 1..Len(kept) |-> FormatFinding(kept[i])]

\* findings.filter(error or warning).slice(0, 10).map(format): the lines that
\* join('\n') puts together.  A line is never empty, so the joined string is
\* empty exactly when there is no line.
HighSignalFindings(fs) ==
    LET kept == Slice(SelectSeq(fs, IsHighSignal), FindingCap)
    IN [i \in 1..Len(kept) |-> FormatFinding(kept[i])]

SectionChanges(sections) ==
    LET kept == Slice(sections, SectionCap)
    IN [i \in 1..Len(kept) |-> FormatSection(kept[i])]

\* lines || sentinel
LinesOr(lines, sentinel) == IF lines # <<>> THEN lines ELSE <<<<sentinel>>>>

\* Math.round(confidence * 100), the confidence held in thousandths.
RoundPercent(c) == (c + 5) \div 10

\* The prompt, as the values its template interpolates (the fixed
\* instruction block that follows them is the same for every input).
buildRichPrompt(prContext, docType, semanticDiff, fs, codeFiles) ==
    [built |-> TRUE,
     title |-> prContext.title,
     description |->
         IF HasText(prContext, "body") THEN prContext.body
         ELSE "(no description)",
     author |-> prContext.author,
     baseRef |-> prContext.baseRef,
     headRef |-> prContext.headRef,
     docType |-> docType.type,
     confidence |-> RoundPercent(docType.confidence),
     filesChanged |-> Len(codeFiles),
     filesSummary |->
         IF Len(codeFiles) > 0
         THEN [i \in 1..Len(codeFiles) |-> FormatFile(codeFiles[i])]
         ELSE <<<<"No code files changed">>>>,
     stats |-> semanticDiff.stats,
     sectionChanges |->
         LinesOr(SectionChanges(semanticDiff.sections),
                 "No section-level changes detected"),
     findings |->
         LinesOr(HighSignalFindings(fs), "No critical issues found")]

(* Inputs of buildRichPrompt *)

SectionTypes == <<"added", "removed", "modified", "moved">>

\* The i-th section change of a sample diff: the four variants in turn.
SampleSection(i) ==
    LET ty == SectionTypes[((i - 1) % 4) + 1] IN
    IF ty = "removed"
    THEN [type |-> ty, oldHeading |-> "Section " \o ToString(i)]
    ELSE [type |-> ty, newHeading |-> "Section " \o ToString(i)]

SampleSections(n) == [i \in 1..n |-> SampleSection(i)]

\* prContext, docType, semanticDiff and codeFiles of a call (codeFiles, when
\* not given, is already [] here): the end-to-end example, a bare pull
\* request, and a diff of more sections than the prompt takes.
InputSamples ==
    {[given |-> TRUE,
      prContext |-> [title |-> "Improve README", body |-> "Adds install steps",
                     author |-> "octocat", baseRef |-> "main", headRef |-> "docs"],
      docType |-> [type |-> "readme", confidence |-> 920],
      semanticDiff |-> [stats |-> [added |-> 2, removed |-> 0, modified |-> 1,
                                   moved |-> 0],
                        sections |-> SampleSections(3)],
      codeFiles |-> <<[filename |-> "src/a.ts", additions |-> 4, deletions |-> 1]>>],
     [given |-> TRUE,
      prContext |-> [title |-> "Update", author |-> "octocat",
                     baseRef |-> "main", headRef |-> "patch-1"],
      docType |-> [type |-> "unknown", confidence |-> 505],
      semanticDiff |-> [stats |-> [added |-> 0, removed |-> 0, modified |-> 0,
                                   moved |-> 0],
                        sections |-> <<>>],
      codeFiles |-> <<>>],
     [given |-> TRUE,
      prContext |-> [title |-> "Rewrite", body |-> "", author |-> "octocat",
                     baseRef |-> "main", headRef |-> "rewrite"],
      docType |-> [type |-> "sop", confidence |-> 1000],
      semanticDiff |-> [stats |-> [added |-> 3, removed |-> 3, modified |-> 3,
                                   moved |-> 3],
                        sections |-> SampleSections(12)],
      codeFiles |-> <<[filename |-> "src/a.ts", additions |-> 4, deletions |-> 1],
                      [filename |-> "src/b.ts", additions |-> 0, deletions |-> 9]>>]}

\* The finding put at place n of a list: its message names its place, its
\* file is in turn given, missing and empty; a high-signal finding is in turn
\* an error and a warning.
FindingAt(n, highSignal) ==
    LET ty == IF ~highSignal THEN "info"
              ELSE IF n % 2 = 1 THEN "error" ELSE "warning"
        msg == "finding " \o ToString(n)
    IN CASE n % 3 = 1 -> [type |-> ty, file |-> "README.md", message |-> msg]
         [] n % 3 = 2 -> [type |-> ty, message |-> msg]
         [] OTHER -> [type |-> ty, file |-> "", message |-> msg]

\* The findings of the end-to-end example, and none.
FindingSamples ==
    {<<>>,
     <<[type |-> "warning", file |-> "README.md",
        message |-> "Missing install section"]>>}

---------------------------------------------------------------------------
(* The state before any operation is invoked *)

NoRequest == [sent |-> FALSE]
NoResponse == [received |-> FALSE]
NoPrompt == [built |-> FALSE]
Pending == [kind |-> "pending"]
Returned(x) == [kind |-> "returned", val |-> x]
Thrown == [kind |-> "thrown"]

NoInput == [given |-> FALSE]

IdleCall ==
    /\ op = "idle"
    /\ pc = "idle"
    /\ config = [apiKey |-> "", groupId |-> ""]
    /\ request = NoRequest
    /\ response = NoResponse
    /\ fetchCalls = 0
    /\ parseCalls = 0
    /\ summaryCalls = 0
    /\ attempt = "NONE"
    /\ ret = Pending

IdlePrompt ==
    /\ reviewInput = NoInput
    /\ findings = <<>>
    /\ prompt = NoPrompt

IdleParse ==
    /\ aiResponse = Text(<<>>)
    /\ parsePc = "idle"
    /\ parseResult = Undefined

---------------------------------------------------------------------------
(* Specification: parseV2Response applied to a model text *)

InitParse ==
    /\ aiResponse \in {Text(s) : s \in ModelTexts}
    /\ parsePc = "call"
    /\ parseResult = Undefined
    /\ IdleCall
    /\ IdlePrompt

ParseResponse ==
    /\ parsePc = "call"
    /\ parseResult' = parseV2Response(aiResponse)
    /\ parsePc' = "done"
    /\ UNCHANGED <<aiResponse, callVars, promptVars>>

NextParse == ParseResponse

SpecParse == InitParse /\ [][NextParse]_vars

---------------------------------------------------------------------------
(* Specification: buildRichPrompt applied to a list of findings *)

MaxFindings == 12

InitPrompt ==
    /\ reviewInput \in InputSamples
    /\ findings = <<>>
    /\ prompt = NoPrompt
    /\ IdleParse
    /\ IdleCall

\* The caller's list grows by an error or a warning.
AddHighSignal ==
    /\ prompt = NoPrompt
    /\ Len(findings) < MaxFindings
    /\ findings' = Append(findings, FindingAt(Len(findings) + 1, TRUE))
    /\ UNCHANGED <<reviewInput, prompt, parseVars, callVars>>

\* The caller's list grows by an info finding.
AddInfo ==
    /\ prompt = NoPrompt
    /\ Len(findings) < MaxFindings
    /\ findings' = Append(findings, FindingAt(Len(findings) + 1, FALSE))
    /\ UNCHANGED <<reviewInput, prompt, parseVars, callVars>>

BuildPrompt ==
    /\ prompt = NoPrompt
    /\ prompt' = buildRichPrompt(reviewInput.prContext, reviewInput.docType,
                                 reviewInput.semanticDiff, findings,
                                 reviewInput.codeFiles)
    /\ UNCHANGED <<reviewInput, findings, parseVars, callVars>>

NextPrompt == AddHighSignal \/ AddInfo \/ BuildPrompt

SpecPrompt == InitPrompt /\ [][NextPrompt]_vars

---------------------------------------------------------------------------
(* Claims about buildRichPrompt (checked under SpecPrompt) *)

\* The places of the error and warning findings in the input, in order.
HighSignalPlaces == {p \in 1..Len(findings) : findings[p].type \in {"error", "warning"}}

\* The place of the i-th error or warning finding.
PlaceOf(i) ==
    CHOOSE p \in HighSignalPlaces :
        Cardinality({q \in HighSignalPlaces : q <= p}) = i

Sentinel == <<<<"No critical issues found">>>>

\* C10: the findings block lists the first 10 error or warning findings in
\* their original order, info findings taking no slot and never appearing,
\* and is the sentinel exactly when there is no error or warning finding.
C10_FindingsBlock ==
    prompt # NoPrompt =>
        /\ (prompt.findings = Sentinel) <=> (HighSignalPlaces = {})
        /\ HighSignalPlaces # {} =>
              /\ Len(prompt.findings) = Min(10, Cardinality(HighSignalPlaces))
              /\ \A i \in 1..Len(prompt.findings) :
                    LET f == findings[PlaceOf(i)] IN
                    /\ prompt.findings[i][2] \in {"ERROR", "WARNING"}
                    /\ prompt.findings[i][2] = ToUpperCase(f.type)
                    /\ prompt.findings[i][4] =
                          (IF "file" \in DOMAIN f /\ f.file # ""
                           THEN f.file ELSE "general")
                    /\ prompt.findings[i][6] = f.message

\* C10 witness: more than 10 errors and warnings with an info finding among
\* the first 10 places, and a block of 10 lines.
C10_Witness ==
    /\ prompt # NoPrompt
    /\ Cardinality(HighSignalPlaces) > 10
    /\ \E p \in 1..10 : findings[p].type = "info"
    /\ Len(prompt.findings) = 10

---------------------------------------------------------------------------
(* generateV2PRDescription *)

Markdown(parts) == [t |-> "markdown", v |-> parts]

\* The description rendered from a review: '' without sections, else one
\* `## heading`, blank line, content per section, in order.  Reading
\* .length of undefined or null, calling .map on what is no array and
\* reading .heading of a null entry raise a TypeError, which nothing catches.
generateV2PRDescription(v2Output) ==
    LET prBodySuggestion == Get(v2Output, "prBodySuggestion") IN
    IF ~CanRead(prBodySuggestion) THEN Thrown
    ELSE LET sections == Get(prBodySuggestion, "sections") IN
         IF ~CanRead(sections) THEN Thrown
         ELSE IF ~Truthy(LengthOf(sections)) THEN Returned(Markdown(<<>>))
         ELSE IF sections.t # "arr" THEN Thrown
         ELSE IF \E i \in 1..Len(sections.v) : ~CanRead(sections.v[i]) THEN Thrown
         ELSE Returned(Markdown(
                  [i \in 1..Len(sections.v) |->
                      [heading |-> Get(sections.v[i], "heading"),
                       content |-> Get(sections.v[i], "content")]]))

---------------------------------------------------------------------------
(* The model endpoint, as fetch shows it *)

RichMaxTokens == 2000
LegacyMaxTokens == 50

\* The answers of one override at most, bare; the spec's example in prose;
\* texts without JSON.
ReviewTexts ==
    {Render(MkObj(f)) : f \in FieldChoices(1)}
    \cup {<<"Here is the result:">> \o Render(MkObj(BaseFields)) \o <<"thanks">>}
    \cup PlainTexts

Completion(content) ==
    MkObj([choices |-> Arr(<<MkObj([message |-> MkObj([content |-> content])])>>)])

\* What response.json() may resolve with.
DataSamples ==
    {Null, Obj(NoFields), MkObj([choices |-> Arr(<<>>)]),
     MkObj([choices |-> Arr(<<Obj(NoFields)>>)]),
     Completion(Undefined), Completion(Null), Completion(Num(5))}
    \cup {Completion(Text(s)) : s \in ReviewTexts}

\* What fetch may resolve with: a status that is OK or not; response.json()
\* of an OK response resolves with the decoded body or rejects.
Responses ==
    {[received |-> TRUE, ok |-> FALSE, status |-> 500],
     [received |-> TRUE, ok |-> TRUE, status |-> 200, json |-> FALSE]}
    \cup {[received |-> TRUE, ok |-> TRUE, status |-> 200, json |-> TRUE,
           data |-> d] : d \in DataSamples}

\* response.json() resolves, and with a value whose properties can be read.
Readable(r) == IF r.json THEN CanRead(r.data) ELSE FALSE

\* x?.k
OptGet(x, k) == IF CanRead(x) THEN Get(x, k) ELSE Undefined

\* x?.[0]
OptFirst(x) ==
    IF CanRead(x) /\ x.t = "arr" /\ Len(x.v) > 0 THEN x.v[1] ELSE Undefined

\* data.choices?.[0]?.message?.content (data itself is read unguarded)
ContentOf(data) ==
    OptGet(OptGet(OptFirst(Get(data, "choices")), "message"), "content")

Configs == [apiKey : {"", "key"}, groupId : {"", "group"}]

\* if (!apiKey || !groupId) with a mistake: only the key is looked at.
CredentialsMissing_KeyOnly(cfg) == cfg.apiKey = ""

\* !apiKey || !groupId
CredentialsMissing(cfg) == cfg.apiKey = "" \/ cfg.groupId = ""

\* The request generateV2Review hands to fetch.
RichRequest(cfg, p) ==
    [sent |-> TRUE, method |-> "POST",
     authorization |-> <<"Bearer ", cfg.apiKey>>,
     model |-> "MiniMax-M2.5", role |-> "user", content |-> p,
     groupId |-> cfg.groupId, temperature |-> "0.3",
     max_tokens |-> RichMaxTokens]

\* The request generateAISummary hands to fetch.
SimpleRequest(cfg, docType, diff) ==
    [sent |-> TRUE, method |-> "POST",
     authorization |-> <<"Bearer ", cfg.apiKey>>,
     model |-> "MiniMax-M2.5", role |-> "user",
     content |-> [docType |-> docType.type, added |-> diff.stats.added,
                  removed |-> diff.stats.removed,
                  modified |-> diff.stats.modified],
     groupId |-> cfg.groupId, temperature |-> "0.3",
     max_tokens |-> LegacyMaxTokens]

---------------------------------------------------------------------------
(* Specification: invocations of the public operations, one at a time *)

InitReview == IdleCall /\ IdlePrompt /\ IdleParse

Free == pc \in {"idle", "returned"}

\* A caller invokes an operation with its arguments.
Invoke(o, first) ==
    /\ Free
    /\ op' = o
    /\ pc' = first
    /\ config' \in Configs
    /\ reviewInput' \in InputSamples
    /\ findings' \in FindingSamples
    /\ request' = NoRequest
    /\ response' = NoResponse
    /\ fetchCalls' = 0
    /\ parseCalls' = 0
    /\ summaryCalls' = IF o = "generateAISummary" THEN 1 ELSE 0
    /\ attempt' = "NONE"
    /\ ret' = Pending
    /\ prompt' = NoPrompt
    /\ aiResponse' = Text(<<>>)
    /\ parseResult' = Undefined
    /\ UNCHANGED parsePc

(* generateV2Review *)

V2Invoke == Invoke("generateV2Review", "check")

\* if (!apiKey || !groupId) return null
V2MissingCredentials ==
    /\ op = "generateV2Review" /\ pc = "check"
    /\ CredentialsMissing(config)
    /\ ret' = Returned(Null)
    /\ pc' = "returned"
    /\ UNCHANGED <<op, config, request, response, fetchCalls, parseCalls,
                   summaryCalls, attempt, parseVars, promptVars>>

\* The prompt is built and fetch is called.
V2SendRequest ==
    /\ op = "generateV2Review" /\ pc = "check"
    /\ ~CredentialsMissing(config)
    /\ prompt' = buildRichPrompt(reviewInput.prContext, reviewInput.docType,
                                 reviewInput.semanticDiff, findings,
                                 reviewInput.codeFiles)
    /\ request' = RichRequest(config, prompt')
    /\ fetchCalls' = fetchCalls + 1
    /\ attempt' = "REQUEST_SENT"
    /\ pc' = "fetch"
    /\ UNCHANGED <<op, config, response, parseCalls, summaryCalls, ret,
                   reviewInput, findings, parseVars>>

\* fetch rejects: the catch block is entered.
V2FetchRejects ==
    /\ op = "generateV2Review" /\ pc = "fetch"
    /\ attempt' = "TRANSPORT_FAILURE"
    /\ pc' = "caught"
    /\ UNCHANGED <<op, config, request, response, fetchCalls, parseCalls,
                   summaryCalls, ret, parseVars, promptVars>>

V2FetchResolves ==
    /\ op = "generateV2Review" /\ pc = "fetch"
    /\ response' \in Responses
    /\ pc' = "status"
    /\ UNCHANGED <<op, config, request, fetchCalls, parseCalls, summaryCalls,
                   attempt, ret, parseVars, promptVars>>

\* The error path retried: fetch is called again.
V2NotOk_Retry ==
    /\ op = "generateV2Review" /\ pc = "status"
    /\ ~response.ok
    /\ fetchCalls < 3
    /\ fetchCalls' = fetchCalls + 1
    /\ attempt' = "REQUEST_SENT"
    /\ pc' = "fetch"
    /\ UNCHANGED <<op, config, request, response, parseCalls, summaryCalls,
                   ret, parseVars, promptVars>>

\* The error path with the body parsed all the same.
V2NotOk_Parsed ==
    /\ op = "generateV2Review" /\ pc = "status"
    /\ ~response.ok
    /\ attempt' = "RESPONSE_ERROR"
    /\ pc' = "parse"
    /\ UNCHANGED <<op, config, request, response, fetchCalls, parseCalls,
                   summaryCalls, ret, parseVars, promptVars>>

\* if (!response.ok) { console.error(...); return null }
V2NotOk ==
    /\ op = "generateV2Review" /\ pc = "status"
    /\ ~response.ok
    /\ attempt' = "RESPONSE_ERROR"
    /\ ret' = Returned(Null)
    /\ pc' = "returned"
    /\ UNCHANGED <<op, config, request, response, fetchCalls, parseCalls,
                   summaryCalls, parseVars, promptVars>>

V2Ok ==
    /\ op = "generateV2Review" /\ pc = "status"
    /\ response.ok
    /\ attempt' = "RESPONSE_OK"
    /\ pc' = "body"
    /\ UNCHANGED <<op, config, request, response, fetchCalls, parseCalls,
                   summaryCalls, ret, parseVars, promptVars>>

\* response.json() rejects, or resolves with null so that data.choices
\* raises: the catch block is entered.
V2BodyFails ==
    /\ op = "generateV2Review" /\ pc = "body"
    /\ ~Readable(response)
    /\ attempt' = "TRANSPORT_FAILURE"
    /\ pc' = "caught"
    /\ UNCHANGED <<op, config, request, response, fetchCalls, parseCalls,
                   summaryCalls, ret, parseVars, promptVars>>

\* aiResponse = data.choices?.[0]?.message?.content || ''
V2BodyRead ==
    /\ op = "generateV2Review" /\ pc = "body"
    /\ Readable(response)
    /\ aiResponse' = OrElse(ContentOf(response.data), Text(<<>>))
    /\ pc' = "parse"
    /\ UNCHANGED <<op, config, request, response, fetchCalls, parseCalls,
                   summaryCalls, attempt, ret, parsePc, parseResult, promptVars>>

\* parseV2Response(aiResponse) is called
V2Parse ==
    /\ op = "generateV2Review" /\ pc = "parse"
    /\ parseCalls' = parseCalls + 1
    /\ parseResult' = parseV2Response(aiResponse)
    /\ attempt' = "PARSE_ATTEMPTED"
    /\ pc' = "parsed"
    /\ UNCHANGED <<op, config, request, response, fetchCalls, summaryCalls,
                   ret, aiResponse, parsePc, promptVars>>

\* and what it returned is returned.
V2ReturnParsed ==
    /\ op = "generateV2Review" /\ pc = "parsed"
    /\ attempt' = IF parseResult # Null THEN "VALID" ELSE "INVALID"
    /\ ret' = Returned(parseResult)
    /\ pc' = "returned"
    /\ UNCHANGED <<op, config, request, response, fetchCalls, parseCalls,
                   summaryCalls, parseVars, promptVars>>

\* catch (error) { console.error(...); return null }
V2Caught ==
    /\ op = "generateV2Review" /\ pc = "caught"
    /\ ret' = Returned(Null)
    /\ pc' = "returned"
    /\ UNCHANGED <<op, config, request, response, fetchCalls, parseCalls,
                   summaryCalls, attempt, parseVars, promptVars>>

(* generateV2PRDescription *)

\* The caller renders the review generateV2Review returned.
RenderDescription ==
    /\ op = "generateV2Review" /\ pc = "returned"
    /\ ret.val # Null
    /\ op' = "generateV2PRDescription"
    /\ ret' = generateV2PRDescription(ret.val)
    /\ fetchCalls' = 0
    /\ parseCalls' = 0
    /\ attempt' = "NONE"
    /\ request' = NoRequest
    /\ response' = NoResponse
    /\ UNCHANGED <<pc, config, summaryCalls, parseVars, promptVars>>

(* generateAISummary and generatePRDescription *)

SummaryInvoke == Invoke("generateAISummary", "try")

DescriptionInvoke == Invoke("generatePRDescription", "delegate")

\* return generateAISummary(docType, diff, findings, config, codeFiles)
DescriptionDelegates ==
    /\ op = "generatePRDescription" /\ pc = "delegate"
    /\ summaryCalls' = summaryCalls + 1
    /\ pc' = "try"
    /\ UNCHANGED <<op, config, request, response, fetchCalls, parseCalls,
                   attempt, ret, parseVars, promptVars>>

InSummary == op \in {"generateAISummary", "generatePRDescription"}

\* The simple prompt is built and fetch is called, whatever the credentials.
SummarySendRequest ==
    /\ InSummary /\ pc = "try"
    /\ request' = SimpleRequest(config, reviewInput.docType,
                                reviewInput.semanticDiff)
    /\ fetchCalls' = fetchCalls + 1
    /\ pc' = "fetch"
    /\ UNCHANGED <<op, config, response, parseCalls, summaryCalls, attempt,
                   ret, parseVars, promptVars>>

SummaryFetchRejects ==
    /\ InSummary /\ pc = "fetch"
    /\ pc' = "caught"
    /\ UNCHANGED <<op, config, request, response, fetchCalls, parseCalls,
                   summaryCalls, attempt, ret, parseVars, promptVars>>

SummaryFetchResolves ==
    /\ InSummary /\ pc = "fetch"
    /\ response' \in Responses
    /\ pc' = "status"
    /\ UNCHANGED <<op, config, request, fetchCalls, parseCalls, summaryCalls,
                   attempt, ret, parseVars, promptVars>>

\* if (!response.ok) return ''
SummaryNotOk ==
    /\ InSummary /\ pc = "status"
    /\ ~response.ok
    /\ ret' = Returned(Text(<<>>))
    /\ pc' = "returned"
    /\ UNCHANGED <<op, config, request, response, fetchCalls, parseCalls,
                   summaryCalls, attempt, parseVars, promptVars>>

SummaryOk ==
    /\ InSummary /\ pc = "status"
    /\ response.ok
    /\ pc' = "body"
    /\ UNCHANGED <<op, config, request, response, fetchCalls, parseCalls,
                   summaryCalls, attempt, ret, parseVars, promptVars>>

SummaryBodyFails ==
    /\ InSummary /\ pc = "body"
    /\ ~Readable(response)
    /\ pc' = "caught"
    /\ UNCHANGED <<op, config, request, response, fetchCalls, parseCalls,
                   summaryCalls, attempt, ret, parseVars, promptVars>>

\* return data.choices?.[0]?.message?.content || ''
SummaryBodyRead ==
    /\ InSummary /\ pc = "body"
    /\ Readable(response)
    /\ ret' = Returned(OrElse(ContentOf(response.data), Text(<<>>)))
    /\ pc' = "returned"
    /\ UNCHANGED <<op, config, request, response, fetchCalls, parseCalls,
                   summaryCalls, attempt, parseVars, promptVars>>

\* catch (error) { console.error(...); return '' }
SummaryCaught ==
    /\ InSummary /\ pc = "caught"
    /\ ret' = Returned(Text(<<>>))
    /\ pc' = "returned"
    /\ UNCHANGED <<op, config, request, response, fetchCalls, parseCalls,
                   summaryCalls, attempt, parseVars, promptVars>>

NextReview ==
    \/ V2Invoke
    \/ V2MissingCredentials
    \/ V2SendRequest
    \/ V2FetchRejects
    \/ V2FetchResolves
    \/ V2NotOk
    \/ V2Ok
    \/ V2BodyFails
    \/ V2BodyRead
    \/ V2Parse
    \/ V2ReturnParsed
    \/ V2Caught
    \/ RenderDescription
    \/ SummaryInvoke
    \/ DescriptionInvoke
    \/ DescriptionDelegates
    \/ SummarySendRequest
    \/ SummaryFetchRejects
    \/ SummaryFetchResolves
    \/ SummaryNotOk
    \/ SummaryOk
    \/ SummaryBodyFails
    \/ SummaryBodyRead
    \/ SummaryCaught

SpecReview == InitReview /\ [][NextReview]_vars

---------------------------------------------------------------------------
(* Claims about parseV2Response (checked under SpecParse) *)

RequiredKeys == {"prIntent", "changeOverview", "verdict"}
DefaultedKeys == {"keyRisks", "checklist", "prBodySuggestion"}

DefaultOf(k) ==
    IF k = "prBodySuggestion" THEN Obj([sections |-> Arr(<<>>)]) ELSE Arr(<<>>)

ParseDone == parsePc = "done"

\* The first-'{'-to-last-'}' span of the text decodes as JSON.
SpanDecodes ==
    HasMatch(aiResponse.v) /\ JSONparse(JsonMatch(aiResponse.v)).ok

\* What the span decodes to.
Source == JSONparse(JsonMatch(aiResponse.v)).val

\* The JSON objects written somewhere in the text that carry the three
\* required keys.
ObjectsWithin ==
    {r.val : r \in
        {JSONparse(SubSeq(aiResponse.v, i, j)) :
            i \in Opens(aiResponse.v), j \in Closes(aiResponse.v)} \ {Fail}}

CarriesRequired(o) == o.t = "obj" /\ RequiredKeys \subseteq DOMAIN o.v

\* C6: when the span decodes as JSON, parseV2Response returns null exactly
\* when prIntent, changeOverview or verdict is absent or falsy, and a non-null
\* result carries the source's own prIntent and changeOverview.
C6_SchemaGate ==
    (ParseDone /\ SpanDecodes) =>
        /\ (parseResult = Null) <=> (\E k \in RequiredKeys : ~Truthy(Get(Source, k)))
        /\ parseResult # Null =>
              /\ Get(parseResult, "prIntent") = Get(Source, "prIntent")
              /\ Get(parseResult, "changeOverview") = Get(Source, "changeOverview")

\* C6 witness: a decodable answer with verdict omitted was parsed to null.
C6_Witness ==
    /\ ParseDone
    /\ SpanDecodes
    /\ Truthy(Get(Source, "prIntent"))
    /\ Truthy(Get(Source, "changeOverview"))
    /\ "verdict" \notin DOMAIN Source.v
    /\ parseResult = Null

\* C7 as claimed: every text that contains a JSON object with the three
\* required keys present parses to non-null, each of keyRisks, checklist,
\* prBodySuggestion being its default when absent from that object and the
\* object's own value when present.
C7_AsClaimed ==
    ParseDone =>
        \A o \in ObjectsWithin :
            CarriesRequired(o) =>
                /\ parseResult # Null
                /\ \A k \in DefaultedKeys :
                      Get(parseResult, k) =
                          (IF k \in DOMAIN o.v THEN o.v[k] ELSE DefaultOf(k))

\* C7 amended: when the span decodes to an object whose three required fields
\* are truthy, the result is non-null, and each of keyRisks, checklist,
\* prBodySuggestion is its default when absent or falsy in the source and the
\* source's value, unchanged, when truthy.
C7_Defaults ==
    (ParseDone /\ SpanDecodes /\ \A k \in RequiredKeys : Truthy(Get(Source, k))) =>
        /\ parseResult # Null
        /\ \A k \in DefaultedKeys :
              Get(parseResult, k) =
                  (IF Truthy(Get(Source, k)) THEN Get(Source, k) ELSE DefaultOf(k))

\* C7 witness: an answer without keyRisks and with a checklist whose entry is
\* malformed was parsed: keyRisks defaulted, the checklist passed through.
C7_Witness ==
    /\ ParseDone
    /\ SpanDecodes
    /\ parseResult # Null
    /\ "keyRisks" \notin DOMAIN Source.v
    /\ Get(parseResult, "keyRisks") = Arr(<<>>)
    /\ Get(Source, "checklist") = Arr(<<Null>>)
    /\ Get(parseResult, "checklist") = Arr(<<Null>>)

\* C8 as claimed: in a non-null result, verdict.confidence is 0.5 when the
\* source's is absent or not a number, is the source's number when that lies
\* in [0,1] (0 and 1 included), and so is always a number.
C8_AsClaimed ==
    (ParseDone /\ SpanDecodes /\ parseResult # Null) =>
        LET given == Get(Get(Source, "verdict"), "confidence")
            got == Get(Get(parseResult, "verdict"), "confidence")
        IN /\ given.t # "num" => got = Num(DefaultConfidence)
           /\ (given.t = "num" /\ 0 <= given.v /\ given.v <= 10) => got = given
           /\ got.t = "num"

\* C9 as claimed: wherever a JSON object carrying the three required fields
\* (each with a truthy value) stands in the text, the text parses to the same non-null result as that
\* object alone; a text without any '{'...'}' span parses to null.
C9_AsClaimed ==
    ParseDone =>
        /\ \A i \in Opens(aiResponse.v), j \in Closes(aiResponse.v) :
              LET J == SubSeq(aiResponse.v, i, j) IN
              (/\ JSONparse(J).ok
               /\ \A k \in RequiredKeys : Truthy(Get(JSONparse(J).val, k))) =>
                  /\ parseResult # Null
                  /\ parseResult = parseV2Response(Text(J))
        /\ ~HasMatch(aiResponse.v) => parseResult = Null

\* C9 amended: when the text is prose + J + prose with J a JSON object, no
\* '{' in the prose before it and no '}' in the prose after it, the text
\* parses to the same result as J alone, which is non-null when J's three
\* required fields are truthy; a text without any '{'...'}' span parses to
\* null.
C9_ProseIgnored ==
    ParseDone =>
        /\ HasMatch(aiResponse.v) =>
              LET i == MinOf(Opens(aiResponse.v))
                  j == MaxOf(Closes(aiResponse.v))
                  J == SubSeq(aiResponse.v, i, j)
              IN JSONparse(J).ok =>
                  /\ parseResult = parseV2Response(Text(J))
                  /\ (\A k \in RequiredKeys : Truthy(Get(JSONparse(J).val, k)))
                        => parseResult = V2Output(JSONparse(J).val)
        /\ ~HasMatch(aiResponse.v) => parseResult = Null

\* C9 witness: "Here is the result: {...} thanks" was parsed to a non-null
\* result.
C9_Witness ==
    /\ ParseDone
    /\ Len(aiResponse.v) > 2
    /\ aiResponse.v[1] = "Here is the result:"
    /\ aiResponse.v[Len(aiResponse.v)] = "thanks"
    /\ parseResult # Null

---------------------------------------------------------------------------
(* Claims about the public operations (checked under SpecReview) *)

InV2 == op = "generateV2Review"

CredentialsEmpty == config.apiKey = "" \/ config.groupId = ""

\* C1: with apiKey or groupId empty, generateV2Review makes no network call
\* and returns null.
C1_FailFast ==
    (InV2 /\ CredentialsEmpty) =>
        /\ fetchCalls = 0
        /\ request = NoRequest
        /\ pc \in {"check", "returned"}
        /\ pc = "returned" => ret = Returned(Null)

\* C1 witness: generateV2Review returned with a key and no groupId.
C1_Witness ==
    /\ InV2
    /\ config.apiKey # "" /\ config.groupId = ""
    /\ pc = "returned"
    /\ ret = Returned(Null)
    /\ fetchCalls = 0

\* C2 as claimed: with apiKey or groupId empty, generateAISummary and
\* generatePRDescription make no network call and return "".
C2_AsClaimed ==
    (InSummary /\ CredentialsEmpty) =>
        /\ fetchCalls = 0
        /\ pc = "returned" => ret = Returned(Text(<<>>))

\* C3 as claimed: no public operation ends in a raised exception.
C3_AsClaimed == ret # Thrown

\* C4: generateV2Review with both credentials makes exactly one network call
\* whatever its outcome, never more, and never calls generateAISummary;
\* generateAISummary and generatePRDescription make at most one.
C4_SingleCall ==
    /\ InV2 => fetchCalls <= 1 /\ summaryCalls = 0
    /\ (InV2 /\ ~CredentialsEmpty /\ pc # "check") => fetchCalls = 1
    /\ InSummary => fetchCalls <= 1

\* C4 witness: generateV2Review returned null after a non-OK status, one call
\* made.
C4_Witness ==
    /\ InV2
    /\ pc = "returned"
    /\ attempt = "RESPONSE_ERROR"
    /\ ret = Returned(Null)
    /\ fetchCalls = 1
    /\ summaryCalls = 0

\* The state machine of a synthesis attempt as the spec draws it.
ClaimedEdges ==
    {<<"NONE", "REQUEST_SENT">>,
     <<"REQUEST_SENT", "RESPONSE_OK">>,
     <<"REQUEST_SENT", "RESPONSE_ERROR">>,
     <<"REQUEST_SENT", "TRANSPORT_FAILURE">>,
     <<"RESPONSE_OK", "PARSE_ATTEMPTED">>,
     <<"PARSE_ATTEMPTED", "VALID">>,
     <<"PARSE_ATTEMPTED", "INVALID">>}

\* parseV2Response is called only after an OK response; a non-OK status or an
\* exception ends in null with no parse; the result is non-null exactly when
\* the attempt ends VALID.
AttemptOutcomes ==
    InV2 =>
        /\ parseCalls > 0 => (response # NoResponse /\ response.ok)
        /\ attempt \in {"RESPONSE_ERROR", "TRANSPORT_FAILURE"} => parseCalls = 0
        /\ pc = "returned" =>
              /\ (ret.val # Null) <=> (attempt = "VALID")
              /\ attempt \in {"NONE", "RESPONSE_ERROR", "TRANSPORT_FAILURE",
                              "INVALID", "VALID"}

\* A step of an attempt (a new invocation starts a new attempt at NONE).
AttemptMoves == attempt' # attempt /\ attempt' # "NONE"

\* C5 as claimed: an attempt moves along the spec's edges only, RESPONSE_OK
\* leading to PARSE_ATTEMPTED and nowhere else.
C5_AsClaimed ==
    [][AttemptMoves => <<attempt, attempt'>> \in ClaimedEdges]_vars

\* C5 amended: an attempt moves along the spec's edges and along one more,
\* RESPONSE_OK -> TRANSPORT_FAILURE (the body of an OK response cannot be read
\* or decoded, or decodes to null: caught, null returned, nothing parsed);
\* parseV2Response is called only after an OK response, a non-OK status or an
\* exception yields null without a parse, and the result is non-null exactly
\* when the attempt ends VALID.
C5_StateMachine ==
    /\ []AttemptOutcomes
    /\ [][AttemptMoves =>
            <<attempt, attempt'>> \in
                ClaimedEdges \cup {<<"RESPONSE_OK", "TRANSPORT_FAILURE">>}]_vars

\* C5 witness: an attempt that went through the parse and ended VALID.
C5_Witness ==
    /\ InV2
    /\ pc = "returned"
    /\ attempt = "VALID"
    /\ parseCalls = 1
    /\ ret.val # Null

===========================================================================
